---- MODULE Spec2Model ----
(***************************************************************************)
(* Ferroscope: the MCP debug server of src/src/main.rs.                    *)
(*                                                                         *)
(* The server reads one JSON-RPC request at a time (run), dispatches it to *)
(* a debug_* operation, and answers with a result or an error.  A          *)
(* DebugSession (debugger subprocess + state + binary_path + location)     *)
(* lives in a registry  Arc<Mutex<Option<DebugSession>>>.                  *)
(*                                                                         *)
(* Text is modelled at word granularity: a line is a sequence of words, a  *)
(* reply a sequence of lines, and  str.contains(pat)  is a search for the  *)
(* pattern among the words.  The debugger is the environment: what it      *)
(* prints, when it prints and when it dies are nondeterministic.           *)
(***************************************************************************)
EXTENDS Integers, Sequences, FiniteSets, TLC

VARIABLES
    session,          \* the registry: NoSession or a DebugSession record
    procs,            \* pids of the debugger subprocesses that are alive
    lock,             \* the registry's Mutex: "free" or "held"
    pc,               \* where the request loop / the operation in flight is
    op,               \* the request in flight (or the last one): [name, arg]
    cmd,              \* send_debugger_command's  command  parameter
    current_state,    \* the operation's local  current_state
    binary_to_debug,  \* debug_run's local  binary_to_debug
    response,         \* send_debugger_command's local  response  (lines)
    elapsed,          \* start_time.elapsed(), in poll ticks
    writes,           \* commands handed to stdin.write_all during this call
    replies,          \* replies send_debugger_command returned during this call
    spawned,          \* debugger subprocesses spawned during this call
    killed,           \* old sessions taken out and killed during this call
    result,           \* the response to the request (NoResult while in flight)
    prev,             \* how the previous request ended
    launched,         \* "process launch" was written to the session's debugger
    stream,           \* the lines the debugger emits on its stdout, in order
    taken,            \* how many of them the server's reader has consumed
    torn,             \* the read_line in flight: "none", "consumed", "lost"
    delivered,        \* the lines read_line has returned so far, in order
    stdin,            \* the lines the client sends on the server's stdin
    nread,            \* how many of them run has read
    handling,         \* the line read last is being handled, no response yet
    stdout            \* the responses run has printed, in order

vars == <<session, procs, lock, pc, op, cmd, current_state, binary_to_debug,
          response, elapsed, writes, replies, spawned, killed, result, prev,
          launched, stream, taken, torn, delivered, stdin, nread, handling,
          stdout>>

\* the debugger's output stream and the reader's place in it
streamvars == <<stream, taken, torn, delivered>>

\* the request lines and the responses of the run loop
loopvars == <<stdin, nread, handling, stdout>>

----------------------------------------------------------------------------
(* Bounds of the model *)

\* lines the debugger prints in answer to one command before it falls silent
MaxResp == 1
\* the 10-second deadline of the read loop, counted in 100 ms poll ticks and
\* scaled down: the loop compares the clock with it and nothing else
TimeoutTicks == 2
\* pids available to spawned debuggers
NumPids == 2

----------------------------------------------------------------------------
(* Text *)

PromptLine   == <<"(lldb)">>
LaunchedLine == <<"Process", "123", "launched">>
StoppedLine  == <<"Process", "123", "stopped">>
ExitedLine   == <<"Process", "123", "exited">>
FrameLine    == <<"stop reason", "at", "main.rs:10">>
CrashLine    == <<"SIGSEGV">>
ErrorLine    == <<"error:", "no", "variable", "x">>
UndeclLine   == <<"use", "of", "undeclared identifier", "x">>
ValueLine    == <<"x", "=", "5">>
PlainLine    == <<"Current", "executable">>
BreakpointLine  == <<"Breakpoint", "1:", "main">>
NoLocationsLine == <<"Breakpoint", "2:", "no locations">>

\* what the debugger can print on one line
Lines == {PromptLine, LaunchedLine, StoppedLine, ExitedLine, FrameLine,
          CrashLine, ErrorLine, UndeclLine, ValueLine, PlainLine,
          BreakpointLine, NoLocationsLine}

\* the lines that report on the program being debugged: it exists only
\* once "process launch" has been written to the debugger
ProcessLines == {LaunchedLine, StoppedLine, ExitedLine, FrameLine, CrashLine}

\* what a debugger can print, its program launched or not
LinesOf(l) == IF l THEN Lines ELSE Lines \ ProcessLines

\* the annotation the read loop appends when the deadline has passed
TimeoutLine == <<"[TIMEOUT - Command may still be processing]">>

\* words that have ":" inside them
ColonWords == {"error:", "main.rs:10", "1:", "2:", ":"}

\* word.contains(pat), for the patterns the program searches for
WordContains(word, pat) ==
    \/ word = pat
    \/ pat = ":" /\ word \in ColonWords

\* line.contains(pat)
LineContains(line, pat) ==
    \E i \in 1..Len(line) : WordContains(line[i], pat)

\* response.contains(pat): no pattern spans a line break
Contains(resp, pat) ==
    \E i \in 1..Len(resp) : LineContains(resp[i], pat)

\* line.trim() == "(lldb)"
IsPrompt(line) == line = PromptLine

\* command.starts_with(prefix), commands and prefixes being word sequences
StartsWith(command, prefix) ==
    /\ Len(command) >= Len(prefix)
    /\ SubSeq(command, 1, Len(prefix)) = prefix

\* response.trim(): leading and trailing blank lines go
RECURSIVE TrimFront(_)
TrimFront(resp) ==
    IF resp # <<>> /\ Head(resp) = <<>> THEN TrimFront(Tail(resp)) ELSE resp

RECURSIVE TrimBack(_)
TrimBack(resp) ==
    IF resp # <<>> /\ resp[Len(resp)] = <<>>
    THEN TrimBack(SubSeq(resp, 1, Len(resp) - 1))
    ELSE resp

Trim(resp) == TrimBack(TrimFront(resp))

----------------------------------------------------------------------------
(* The command vocabulary *)

TargetCreateCmd(path) == <<"target", "create", path>>
BreakpointSetCmd(loc) == <<"breakpoint", "set", "--name", loc>>
ProcessLaunchCmd      == <<"process", "launch">>
ProcessContinueCmd    == <<"process", "continue">>
StepOverCmd           == <<"thread", "step-over">>
StepInCmd             == <<"thread", "step-in">>
StepOutCmd            == <<"thread", "step-out">>
ExpressionCmd(expr)   == <<"expression", expr>>
FrameVariableCmd(expr) == <<"frame", "variable", expr>>
BacktraceCmd          == <<"thread", "backtrace">>
BreakpointListCmd     == <<"breakpoint", "list">>
NoCmd                 == <<>>

----------------------------------------------------------------------------
(* DebugState and DebugSession *)

DebugState == {"NotLoaded", "Loaded", "Running", "Stopped", "Crashed", "Completed"}

\* format!("{:?}", state).to_lowercase()
DebugLower(st) ==
    CASE st = "NotLoaded" -> "notloaded"
      [] st = "Loaded"    -> "loaded"
      [] st = "Running"   -> "running"
      [] st = "Stopped"   -> "stopped"
      [] st = "Crashed"   -> "crashed"
      [] st = "Completed" -> "completed"

NoSession  == [proc |-> 0, state |-> "NotLoaded", binary_path |-> "", current_location |-> "", some |-> FALSE]
NoLocation == ""

DebugSession(p, st, path, loc) ==
    [proc |-> p, state |-> st, binary_path |-> path, current_location |-> loc, some |-> TRUE]

\* mutant: a session whose debugger is dead counts as no session
StateOrNotLoaded_alive(s) == IF s.some /\ s.proc \in procs THEN s.state ELSE "NotLoaded"

\* session_guard.as_ref().map(|s| s.state.clone()).unwrap_or(DebugState::NotLoaded)
StateOrNotLoaded(s) == IF s.some THEN s.state ELSE "NotLoaded"

Pids == 1..NumPids

----------------------------------------------------------------------------
(* Response Framer and State Tracker: the pure functions *)

\* mutant: the launch predicate applies to every command
is_response_complete_any(line, command) ==
    \/ IsPrompt(line)
    \/ /\ LineContains(line, "Process")
       /\ (LineContains(line, "launched") \/ LineContains(line, "stopped"))
    \/ /\ StartsWith(command, <<"process", "continue">>)
       /\ LineContains(line, "Process")
       /\ (LineContains(line, "stopped") \/ LineContains(line, "exited"))
    \/ /\ StartsWith(command, <<"breakpoint", "set">>)
       /\ LineContains(line, "Breakpoint")
       /\ LineContains(line, ":")
    \/ /\ (StartsWith(command, <<"expression">>) \/ StartsWith(command, <<"frame", "variable">>))
       /\ (LineContains(line, "=") \/ LineContains(line, "error:"))

\* is_response_complete(line, command)
is_response_complete(line, command) ==
    \/ IsPrompt(line)
    \/ /\ StartsWith(command, <<"process", "launch">>)
       /\ LineContains(line, "Process")
       /\ (LineContains(line, "launched") \/ LineContains(line, "stopped"))
    \/ /\ StartsWith(command, <<"process", "continue">>)
       /\ LineContains(line, "Process")
       /\ (LineContains(line, "stopped") \/ LineContains(line, "exited"))
    \/ /\ StartsWith(command, <<"breakpoint", "set">>)
       /\ LineContains(line, "Breakpoint")
       /\ LineContains(line, ":")
    \/ /\ (StartsWith(command, <<"expression">>) \/ StartsWith(command, <<"frame", "variable">>))
       /\ (LineContains(line, "=") \/ LineContains(line, "error:"))

\* line.contains(" at "): the word "at" with text before and after it
AtIndexes(line) == {i \in 2..(Len(line) - 1) : line[i] = "at"}

\* line.split(" at ").nth(1).split_whitespace().next()
LocationOfLine(line) ==
    LET i == CHOOSE k \in AtIndexes(line) : \A j \in AtIndexes(line) : k <= j
    IN  line[i + 1]

\* mutant: the last line with a location wins
extract_location_from_response_last(resp) ==
    LET hits == {i \in 1..Len(resp) :
                    AtIndexes(resp[i]) # {} /\ LocationOfLine(resp[i]) # ""}
    IN  IF hits = {} THEN NoLocation
        ELSE LocationOfLine(resp[CHOOSE k \in hits : \A j \in hits : k >= j])

\* extract_location_from_response(response): NoLocation stands for None.
\* The word "" after "at" is blank text: split_whitespace().next() is None
\* there, the inner `if let` fails and the for loop goes on to the next line
extract_location_from_response(resp) ==
    LET hits == {i \in 1..Len(resp) :
                    AtIndexes(resp[i]) # {} /\ LocationOfLine(resp[i]) # ""}
    IN  IF hits = {} THEN NoLocation
        ELSE LocationOfLine(resp[CHOOSE k \in hits : \A j \in hits : k <= j])

\* mutant: a reply that matches no row puts the session back to Loaded
TrackedState_reset(resp, old) ==
    IF Contains(resp, "Process") /\ Contains(resp, "launched") THEN "Running"
    ELSE IF Contains(resp, "Process") /\ Contains(resp, "stopped") THEN "Stopped"
    ELSE IF Contains(resp, "Process") /\ Contains(resp, "exited") THEN "Completed"
    ELSE IF \/ Contains(resp, "crashed")
            \/ Contains(resp, "SIGSEGV")
            \/ Contains(resp, "SIGABRT") THEN "Crashed"
    ELSE "Loaded"

\* mutant: Completed and Crashed are final, no reply leads out of them
TrackedState_sticky(resp, old) ==
    IF old \in {"Completed", "Crashed"} THEN old
    ELSE IF Contains(resp, "Process") /\ Contains(resp, "launched") THEN "Running"
    ELSE IF Contains(resp, "Process") /\ Contains(resp, "stopped") THEN "Stopped"
    ELSE IF Contains(resp, "Process") /\ Contains(resp, "exited") THEN "Completed"
    ELSE IF \/ Contains(resp, "crashed")
            \/ Contains(resp, "SIGSEGV")
            \/ Contains(resp, "SIGABRT") THEN "Crashed"
    ELSE old

\* mutant: the "stopped" row is tried before the "launched" row
TrackedState_swapped(resp, old) ==
    IF Contains(resp, "Process") /\ Contains(resp, "stopped") THEN "Stopped"
    ELSE IF Contains(resp, "Process") /\ Contains(resp, "launched") THEN "Running"
    ELSE IF Contains(resp, "Process") /\ Contains(resp, "exited") THEN "Completed"
    ELSE IF \/ Contains(resp, "crashed")
            \/ Contains(resp, "SIGSEGV")
            \/ Contains(resp, "SIGABRT") THEN "Crashed"
    ELSE old

\* the state half of update_session_state
TrackedState(resp, old) ==
    IF Contains(resp, "Process") /\ Contains(resp, "launched") THEN "Running"
    ELSE IF Contains(resp, "Process") /\ Contains(resp, "stopped") THEN "Stopped"
    ELSE IF Contains(resp, "Process") /\ Contains(resp, "exited") THEN "Completed"
    ELSE IF \/ Contains(resp, "crashed")
            \/ Contains(resp, "SIGSEGV")
            \/ Contains(resp, "SIGABRT") THEN "Crashed"
    ELSE old

\* mutant: a reply without a stop location clears the location
TrackedLocation_clear(resp, old) ==
    IF Contains(resp, "stop reason") /\ extract_location_from_response(resp) # NoLocation
    THEN extract_location_from_response(resp)
    ELSE NoLocation

\* the location half of update_session_state
TrackedLocation(resp, old) ==
    IF Contains(resp, "stop reason") /\ extract_location_from_response(resp) # NoLocation
    THEN extract_location_from_response(resp)
    ELSE old

\* mutant: the extracted location lands in binary_path
update_session_state_path(resp, s) ==
    [s EXCEPT !.state = TrackedState(resp, s.state),
              !.binary_path = TrackedLocation(resp, s.binary_path)]

\* update_session_state(response, session)
update_session_state(resp, s) ==
    [s EXCEPT !.state = TrackedState(resp, s.state),
              !.current_location = TrackedLocation(resp, s.current_location)]

----------------------------------------------------------------------------
(* Results and errors *)

NoResult ==
    [kind |-> "none", success |-> FALSE, state |-> "", error |-> "",
     output |-> <<>>, location |-> "", binary_path |-> "", method |-> ""]

\* Ok(json!({...})): wrapped by handle_request into a "result" response
OkResult(success, state, error, output, location, path, method) ==
    [kind |-> "result", success |-> success, state |-> state, error |-> error,
     output |-> output, location |-> location, binary_path |-> path, method |-> method]

\* Err(e): wrapped by handle_request into an "error" response (code -32602)
ErrResult(message) ==
    [kind |-> "error", success |-> FALSE, state |-> "", error |-> message,
     output |-> <<>>, location |-> "", binary_path |-> "", method |-> ""]

NoSessionError    == "No active debugger session"
PathMissingError  == "Path does not exist"
BuildFailedError  == "Build failed"
SpawnFailedError  == "lldb cannot be spawned"
WriteFailedError  == "write to the debugger failed"

AlreadyRunningError == "Program is already running"
FinishedError       == "Program has finished execution"
NotLoadedError      == "No program loaded. Use debug_run first."
MustBeStoppedStep   == "Program must be stopped at a breakpoint to step"
MustBeStoppedEval   == "Program must be stopped (at breakpoint) to evaluate expressions"
MustBeStoppedTrace  == "Program must be stopped to show backtrace"

----------------------------------------------------------------------------
(* The environment: the file system, the build step, the process table *)

Paths == {"./bin", "./proj", "./nonexistent"}
Exprs == {"x"}
BreakLocations == {"main"}

\* std::path::Path::is_dir / exists on the paths above
IsDir(path)  == path = "./proj"

\* mutant: every path is taken to exist
Exists_any(path) == TRUE

Exists(path) == path \in {"./bin", "./proj"}

\* the binary build_rust_project resolves: <dir>/target/debug/<name>
BuiltBinary(path) == "./proj/target/debug/app"

\* the pid the operating system gives the next spawned debugger
FreePids == {p \in Pids : p \notin procs /\ ~(session.some /\ session.proc = p)}
NewPid   == CHOOSE p \in FreePids : \A q \in FreePids : p <= q

\* a session's subprocess is running
Alive(s) == s.some /\ s.proc \in procs

----------------------------------------------------------------------------
(* Init *)

Init ==
    /\ session = NoSession
    /\ procs = {}
    /\ lock = "free"
    /\ pc = "idle"
    /\ op = [name |-> "", arg |-> ""]
    /\ cmd = NoCmd
    /\ current_state = "NotLoaded"
    /\ binary_to_debug = ""
    /\ response = <<>>
    /\ elapsed = 0
    /\ writes = <<>>
    /\ replies = <<>>
    /\ spawned = 0
    /\ killed = 0
    /\ result = NoResult
    /\ prev = "none"
    /\ launched = FALSE
    /\ stream = <<>>
    /\ taken = 0
    /\ torn = "none"
    /\ delivered = <<>>
    /\ stdin = <<>>
    /\ nread = 0
    /\ handling = FALSE
    /\ stdout = <<>>

----------------------------------------------------------------------------
(* The request loop: one request at a time *)

\* how a finished request is remembered by the next one
Outcome(r) ==
    IF r.kind = "none" THEN "none"
    ELSE IF r.kind = "error" /\ r.error = PathMissingError THEN "run_missing"
    ELSE "other"

\* run reads the next request line and handle_call_tool dispatches it
Begin(name, arg, cs) ==
    /\ pc = "idle"
    /\ op' = [name |-> name, arg |-> arg]
    /\ current_state' = cs
    /\ binary_to_debug' = ""
    /\ response' = <<>>
    /\ elapsed' = 0
    /\ writes' = <<>>
    /\ replies' = <<>>
    /\ spawned' = 0
    /\ prev' = Outcome(result)
    /\ UNCHANGED <<streamvars, loopvars>>

\* the number of sessions  session_guard.take()  hands to kill
Taken(s) == IF s.some THEN 1 ELSE 0

\* mutant: an Err leaves the request loop instead of becoming a response
Finish_propagate(r) ==
    /\ pc' = IF r.kind = "error" THEN "stopped" ELSE "idle"
    /\ cmd' = NoCmd
    /\ result' = r

\* the operation returns; handle_request wraps the value, run prints it
Finish(r) ==
    /\ pc' = "idle"
    /\ cmd' = NoCmd
    /\ result' = r

\* the operation goes on to call send_debugger_command(command)
Call(command) ==
    /\ pc' = "send"
    /\ cmd' = command
    /\ result' = NoResult

----------------------------------------------------------------------------
(* debug_run and start_debugger_session *)

\* mutant: the old session is taken out but its subprocess is not killed
KillOld_leak(s, ps) == ps

\* if let Some(mut old_session) = session_guard.take() { old_session.process.kill() }
KillOld(s, ps) == IF s.some THEN ps \ {s.proc} ELSE ps

\* mutant: the old session is torn down only once the path is known to exist
debug_run_checked(path) ==
    /\ Begin("debug_run", path, "NotLoaded")
    /\ lock = "free"
    /\ IF Exists(path)
       THEN /\ procs' = KillOld(session, procs)
            /\ killed' = Taken(session)
            /\ session' = NoSession
            /\ launched' = FALSE
       ELSE /\ killed' = 0
            /\ UNCHANGED <<procs, session, launched>>
    /\ pc' = "run_resolve"
    /\ cmd' = NoCmd
    /\ result' = NoResult
    /\ UNCHANGED lock

\* debug_run, first block: under the lock, take the old session and kill it
debug_run(path) ==
    /\ Begin("debug_run", path, "NotLoaded")
    /\ lock = "free"
    /\ procs' = KillOld(session, procs)
    /\ killed' = Taken(session)
    /\ session' = NoSession
    /\ pc' = "run_resolve"
    /\ cmd' = NoCmd
    /\ result' = NoResult
    /\ launched' = FALSE
    /\ UNCHANGED lock

\* debug_run, second part: directory (build it), existing binary, or nothing
debug_run_resolve ==
    /\ pc = "run_resolve"
    /\ UNCHANGED <<streamvars, loopvars>>
    /\ \/ /\ IsDir(op.arg)
          /\ \/ /\ binary_to_debug' = BuiltBinary(op.arg)
                /\ pc' = "run_spawn"
                /\ UNCHANGED <<cmd, result>>
             \/ /\ Finish(ErrResult(BuildFailedError))
                /\ UNCHANGED binary_to_debug
       \/ /\ ~IsDir(op.arg) /\ Exists(op.arg)
          /\ binary_to_debug' = op.arg
          /\ pc' = "run_spawn"
          /\ UNCHANGED <<cmd, result>>
       \/ /\ ~IsDir(op.arg) /\ ~Exists(op.arg)
          /\ Finish(ErrResult(PathMissingError))
          /\ UNCHANGED binary_to_debug
    /\ UNCHANGED <<session, procs, lock, op, current_state, response, elapsed,
                   writes, replies, spawned, killed, prev, launched>>

\* start_debugger_session up to the stored session: spawn lldb, build the
\* DebugSession in state NotLoaded, store it under the lock
start_debugger_session ==
    /\ pc = "run_spawn"
    /\ UNCHANGED <<streamvars, loopvars>>
    /\ \/ /\ Finish(ErrResult(SpawnFailedError))
          /\ UNCHANGED <<session, procs, spawned>>
       \/ /\ FreePids # {}
          /\ lock = "free"
          /\ procs' = procs \cup {NewPid}
          /\ spawned' = spawned + 1
          /\ session' = DebugSession(NewPid, "NotLoaded", binary_to_debug, NoLocation)
          /\ Call(TargetCreateCmd(binary_to_debug))
    /\ UNCHANGED <<lock, op, current_state, binary_to_debug, response, elapsed,
                   writes, replies, killed, prev, launched>>

----------------------------------------------------------------------------
(* The operations: precondition check, then the command *)

\* mutant: a loaded program is resumed instead of launched
debug_continue_command_resume(st) ==
    CASE st \in {"Loaded", "Stopped"} -> ProcessContinueCmd
      [] OTHER -> NoCmd

\* debug_continue's match on current_state: the command, or NoCmd to reject
debug_continue_command(st) ==
    CASE st = "Loaded"  -> ProcessLaunchCmd
      [] st = "Stopped" -> ProcessContinueCmd
      [] OTHER          -> NoCmd

\* debug_continue's three rejections
debug_continue_rejection(st) ==
    CASE st = "Running" -> OkResult(FALSE, "running", AlreadyRunningError, <<>>, "", "", "")
      [] st \in {"Completed", "Crashed"} ->
             OkResult(FALSE, DebugLower(st), FinishedError, <<>>, "", "", "")
      [] OTHER -> OkResult(FALSE, "not_loaded", NotLoadedError, <<>>, "", "", "")

\* mutant: a running program is let through as well
StoppedOnly_lax(st) == st \in {"Stopped", "Running"}

\* if current_state != DebugState::Stopped { return Ok(success:false, state) }
StoppedOnly(st) == st = "Stopped"

Rejection(st, message) ==
    OkResult(FALSE, DebugLower(st), message, <<>>, "", "", "")

\* debug_continue, up to the call of send_debugger_command
debug_continue ==
    /\ Begin("debug_continue", "", StateOrNotLoaded(session))
    /\ lock = "free"
    /\ IF debug_continue_command(StateOrNotLoaded(session)) # NoCmd
       THEN Call(debug_continue_command(StateOrNotLoaded(session)))
       ELSE Finish(debug_continue_rejection(StateOrNotLoaded(session)))
    /\ killed' = 0
    /\ UNCHANGED <<session, procs, lock, launched>>

\* the shape debug_step, debug_step_into, debug_step_out, debug_eval and
\* debug_backtrace share: read the state under the lock, reject or go on
Guarded(name, arg, command, message) ==
    /\ Begin(name, arg, StateOrNotLoaded(session))
    /\ lock = "free"
    /\ IF StoppedOnly(StateOrNotLoaded(session))
       THEN Call(command)
       ELSE Finish(Rejection(StateOrNotLoaded(session), message))
    /\ killed' = 0
    /\ UNCHANGED <<session, procs, lock, launched>>

debug_step      == Guarded("debug_step", "", StepOverCmd, MustBeStoppedStep)
debug_step_into == Guarded("debug_step_into", "", StepInCmd, MustBeStoppedStep)
debug_step_out  == Guarded("debug_step_out", "", StepOutCmd, MustBeStoppedStep)
debug_eval(expr) == Guarded("debug_eval", expr, ExpressionCmd(expr), MustBeStoppedEval)
debug_backtrace == Guarded("debug_backtrace", "", BacktraceCmd, MustBeStoppedTrace)

\* mutant: with no session the call is answered with a success:false result
Unguarded_reject(name, arg, command) ==
    /\ Begin(name, arg, "NotLoaded")
    /\ IF session.some
       THEN Call(command)
       ELSE Finish(Rejection("NotLoaded", NoSessionError))
    /\ killed' = 0
    /\ UNCHANGED <<session, procs, lock, launched>>

\* debug_break and debug_list_breakpoints: no check, straight to the command
Unguarded(name, arg, command) ==
    /\ Begin(name, arg, "NotLoaded")
    /\ Call(command)
    /\ killed' = 0
    /\ UNCHANGED <<session, procs, lock, launched>>

debug_break(location)  == Unguarded("debug_break", location, BreakpointSetCmd(location))
debug_list_breakpoints == Unguarded("debug_list_breakpoints", "", BreakpointListCmd)

\* mutant: the snapshot takes the session out of the registry (take() for
\* as_ref())
get_debug_state_take ==
    /\ Begin("debug_state", "", "NotLoaded")
    /\ lock = "free"
    /\ Finish([kind |-> "snapshot", success |-> TRUE,
               state |-> DebugLower(StateOrNotLoaded(session)), error |-> "",
               output |-> <<>>,
               location |-> IF session.some THEN session.current_location ELSE NoLocation,
               binary_path |-> IF session.some THEN session.binary_path ELSE "",
               method |-> ""])
    /\ killed' = 0
    /\ session' = NoSession
    /\ UNCHANGED <<procs, lock, launched>>

\* get_debug_state: a snapshot under the lock, no command; its JSON has the
\* fields state, location and binary_path and no success field
get_debug_state ==
    /\ Begin("debug_state", "", "NotLoaded")
    /\ lock = "free"
    /\ Finish([kind |-> "snapshot", success |-> TRUE,
               state |-> DebugLower(StateOrNotLoaded(session)), error |-> "",
               output |-> <<>>,
               location |-> IF session.some THEN session.current_location ELSE NoLocation,
               binary_path |-> IF session.some THEN session.binary_path ELSE "",
               method |-> ""])
    /\ killed' = 0
    /\ UNCHANGED <<session, procs, lock, launched>>

----------------------------------------------------------------------------
(* What each operation does with the reply send_debugger_command returns *)

\* mutant: only "undeclared identifier" triggers the fallback
NeedsFallback_undeclared(resp) == Contains(resp, "undeclared identifier")

\* response.contains("error:") || response.contains("undeclared identifier")
NeedsFallback(resp) ==
    Contains(resp, "error:") \/ Contains(resp, "undeclared identifier")

\* mutant: the path of the request is reported, not the resolved one
start_debugger_session_result_requested(resp, path) ==
    OkResult(TRUE, "loaded", "", Trim(resp), "", op.arg, "")

\* mutant: a load whose reply holds "error:" reports failure
start_debugger_session_result_checked(resp, path) ==
    OkResult(~Contains(resp, "error:"), "loaded", "", Trim(resp), "", path, "")

\* start_debugger_session after the load command: state Loaded, success
start_debugger_session_result(resp, path) ==
    OkResult(TRUE, "loaded", "", Trim(resp), "", path, "")

\* mutant: only "error:" makes a break fail
debug_break_result_errors(resp, location) ==
    OkResult(~Contains(resp, "error:"), "", "", Trim(resp), location, "", "")

\* debug_break after the command: success unless the reply tells otherwise
debug_break_result(resp, location) ==
    OkResult(~Contains(resp, "no locations") /\ ~Contains(resp, "error:"),
             "", "", Trim(resp), location, "", "")

\* mutant: the state read for the precondition is reported, not re-read
StateResult_stale(resp, s) ==
    OkResult(TRUE, DebugLower(current_state), "", Trim(resp),
             IF s.some THEN s.current_location ELSE NoLocation, "", "")

\* debug_continue and the step family: re-read state and location, success
StateResult(resp, s) ==
    OkResult(TRUE, DebugLower(StateOrNotLoaded(s)), "", Trim(resp),
             IF s.some THEN s.current_location ELSE NoLocation, "", "")

\* mutant: an eval that got a reply counts as a success
debug_eval_result_true(resp, method) ==
    OkResult(TRUE, "", "", Trim(resp), "", "", method)

\* debug_eval after its last command: success unless the reply has "error:"
debug_eval_result(resp, method) ==
    OkResult(~Contains(resp, "error:"), "", "", Trim(resp), "", "", method)

PassthroughResult(resp) == OkResult(TRUE, "", "", Trim(resp), "", "", "")

\* the caller's code after  send_debugger_command(..).await?  returned resp,
\* the session being s after update_session_state
AfterCommand(resp, s) ==
    CASE op.name = "debug_run" ->
             /\ session' = [s EXCEPT !.state = "Loaded"]
             /\ Finish(start_debugger_session_result(resp, binary_to_debug))
      [] op.name = "debug_break" ->
             /\ session' = s
             /\ Finish(debug_break_result(resp, op.arg))
      [] op.name \in {"debug_continue", "debug_step", "debug_step_into", "debug_step_out"} ->
             /\ session' = s
             /\ Finish(StateResult(resp, s))
      [] op.name = "debug_eval" ->
             /\ session' = s
             /\ IF cmd = ExpressionCmd(op.arg)
                THEN IF NeedsFallback(resp)
                     THEN /\ Call(FrameVariableCmd(op.arg))
                     ELSE /\ Finish(debug_eval_result(resp, "expression"))
                ELSE Finish(debug_eval_result(resp, "frame_variable"))
      [] OTHER ->
             /\ session' = s
             /\ Finish(PassthroughResult(resp))

----------------------------------------------------------------------------
(* send_debugger_command *)

\* mutant: the deadline is never found to have passed
TimedOut_never(e) == FALSE

\* start_time.elapsed() > timeout_duration
TimedOut(e) == e > TimeoutTicks

\* the clock, saturating above the deadline
ClockCap == TimeoutTicks + 2
ClockAfter(e, d) == IF e + d > ClockCap THEN ClockCap ELSE e + d

\* lock, then write the command: no session, a closed pipe, or written
send_debugger_command ==
    /\ pc = "send"
    /\ UNCHANGED <<streamvars, loopvars>>
    /\ lock = "free"
    /\ \/ /\ ~session.some
          /\ Finish(ErrResult(NoSessionError))
          /\ UNCHANGED <<writes, lock, response, elapsed, launched>>
       \/ /\ session.some /\ ~Alive(session)
          /\ writes' = Append(writes, cmd)
          /\ Finish(ErrResult(WriteFailedError))
          /\ UNCHANGED <<lock, response, elapsed, launched>>
       \/ /\ Alive(session)
          /\ writes' = Append(writes, cmd)
          /\ launched' = (launched \/ cmd = ProcessLaunchCmd)
          /\ lock' = "held"
          /\ pc' = "read"
          /\ response' = <<>>
          /\ elapsed' = 0
          /\ UNCHANGED <<cmd, result>>
    /\ UNCHANGED <<session, procs, op, current_state, binary_to_debug, replies,
                   spawned, killed, prev>>

\* mutant: the guard outlives send_debugger_command
Complete_hold(resp) ==
    /\ replies' = Append(replies, resp)
    /\ response' = <<>>
    /\ elapsed' = 0
    /\ lock' = "held"
    /\ AfterCommand(resp, update_session_state(resp, session))
    /\ UNCHANGED <<procs, op, current_state, binary_to_debug, writes, spawned,
                   killed, prev, launched>>

\* the loop is left: update_session_state, unlock, Ok(response) to the caller
Complete(resp) ==
    /\ replies' = Append(replies, resp)
    /\ response' = <<>>
    /\ elapsed' = 0
    /\ lock' = "free"
    /\ AfterCommand(resp, update_session_state(resp, session))
    /\ UNCHANGED <<procs, op, current_state, binary_to_debug, writes, spawned,
                   killed, prev, launched>>

\* select!: read_line resolves with a line
ReadLine(line, d) ==
    /\ pc = "read"
    /\ UNCHANGED <<streamvars, loopvars>>
    /\ ~TimedOut(elapsed)
    /\ Len(response) < MaxResp
    /\ line \in LinesOf(launched)
    /\ IF is_response_complete(line, cmd)
       THEN Complete(Append(response, line))
       ELSE /\ response' = Append(response, line)
            /\ elapsed' = ClockAfter(elapsed, d)
            /\ UNCHANGED <<session, procs, lock, pc, op, cmd, current_state,
                           binary_to_debug, writes, replies, spawned, killed, result,
                           prev, launched>>

\* select!: read_line resolves with Ok(0), the debugger's stdout is closed
ReadEOF ==
    /\ pc = "read"
    /\ UNCHANGED <<streamvars, loopvars>>
    /\ ~TimedOut(elapsed)
    /\ ~Alive(session)
    /\ Complete(response)

\* select!: read_line resolves with Err (bytes that are not UTF-8)
ReadError ==
    /\ pc = "read"
    /\ UNCHANGED <<streamvars, loopvars>>
    /\ ~TimedOut(elapsed)
    /\ Complete(response)

\* select!: the 100 ms sleep resolves first
Tick ==
    /\ pc = "read"
    /\ UNCHANGED <<streamvars, loopvars>>
    /\ ~TimedOut(elapsed)
    /\ Alive(session)
    /\ elapsed' = ClockAfter(elapsed, 1)
    /\ UNCHANGED <<session, procs, lock, pc, op, cmd, current_state,
                   binary_to_debug, response, writes, replies, spawned, killed,
                   result, prev, launched>>

\* mutant: a command that times out fails the operation
TimeoutBreak_fail ==
    /\ pc = "read"
    /\ UNCHANGED <<streamvars, loopvars>>
    /\ TimedOut(elapsed)
    /\ Finish(ErrResult("Command timed out"))
    /\ response' = <<>>
    /\ elapsed' = 0
    /\ lock' = "free"
    /\ UNCHANGED <<session, procs, op, current_state, binary_to_debug, writes,
                   replies, spawned, killed, prev, launched>>

\* the deadline check at the top of the loop
TimeoutBreak ==
    /\ pc = "read"
    /\ UNCHANGED <<streamvars, loopvars>>
    /\ TimedOut(elapsed)
    /\ Complete(Append(response, TimeoutLine))

----------------------------------------------------------------------------
(* The debugger dies; the server's input ends *)

\* the debugger subprocess exits on its own
ProcessExits ==
    /\ pc # "stopped"
    /\ UNCHANGED <<streamvars, loopvars>>
    /\ Alive(session)
    /\ procs' = procs \ {session.proc}
    /\ UNCHANGED <<session, lock, pc, op, cmd, current_state, binary_to_debug,
                   response, elapsed, writes, replies, spawned, killed, result, prev,
                   launched>>

\* mutant: Drop empties the registry and leaves the subprocess running
Shutdown_skip ==
    /\ pc = "idle"
    /\ UNCHANGED <<streamvars, loopvars>>
    /\ pc' = "stopped"
    /\ IF lock = "free"
       THEN /\ session' = NoSession
            /\ killed' = Taken(session)
            /\ launched' = FALSE
            /\ UNCHANGED procs
       ELSE UNCHANGED <<session, procs, killed, launched>>
    /\ UNCHANGED <<lock, op, cmd, current_state, binary_to_debug, response,
                   elapsed, writes, replies, spawned, result, prev>>

\* stdin ends: run returns between two requests, main drops the server, and
\* Drop, if try_lock gets the lock, takes the session out and kills it
Shutdown ==
    /\ pc = "idle"
    /\ UNCHANGED <<streamvars, loopvars>>
    /\ pc' = "stopped"
    /\ IF lock = "free"
       THEN /\ procs' = KillOld(session, procs)
            /\ session' = NoSession
            /\ killed' = Taken(session)
            /\ launched' = FALSE
       ELSE UNCHANGED <<session, procs, killed, launched>>
    /\ UNCHANGED <<lock, op, cmd, current_state, binary_to_debug, response,
                   elapsed, writes, replies, spawned, result, prev>>

----------------------------------------------------------------------------
(* The specification *)

Next ==
    \/ \E path \in Paths : debug_run(path)
    \/ debug_run_resolve
    \/ start_debugger_session
    \/ \E location \in BreakLocations : debug_break(location)
    \/ debug_continue
    \/ debug_step
    \/ debug_step_into
    \/ debug_step_out
    \/ \E expr \in Exprs : debug_eval(expr)
    \/ debug_backtrace
    \/ debug_list_breakpoints
    \/ get_debug_state
    \/ send_debugger_command
    \/ \E line \in Lines, d \in {0, 1} : ReadLine(line, d)
    \/ ReadEOF
    \/ ReadError
    \/ Tick
    \/ TimeoutBreak
    \/ ProcessExits
    \/ Shutdown

Spec == Init /\ [][Next]_vars

\* the runtime resumes a read loop whose timer or read is ready
ReadLoopStep ==
    \/ \E line \in Lines, d \in {0, 1} : ReadLine(line, d)
    \/ ReadEOF
    \/ ReadError
    \/ Tick
    \/ TimeoutBreak

FairSpec == Spec /\ WF_vars(ReadLoopStep)

\* the runtime also resumes an operation that waits for the free lock, and
\* its write to the debugger's pipe completes
LockSpec == Spec /\ WF_vars(ReadLoopStep) /\ WF_vars(send_debugger_command)

----------------------------------------------------------------------------
(* Loading alone.  The reply to target create names the binary, and a path
   can spell any word: "Current executable set to './crashed'" holds a
   pattern of the State Tracker before any program runs. *)

\* the reply line that names a binary called "crashed"
CrashedPathLine == <<"Current", "executable", "crashed">>

\* what a debugger prints in reply to target create
LoadLines == {PromptLine, PlainLine, ErrorLine, CrashedPathLine}

\* select!: read_line resolves with a line of the reply to target create
LoadReadLine(line) ==
    /\ pc = "read"
    /\ UNCHANGED <<streamvars, loopvars>>
    /\ ~TimedOut(elapsed)
    /\ Len(response) < MaxResp
    /\ IF is_response_complete(line, cmd)
       THEN Complete(Append(response, line))
       ELSE /\ response' = Append(response, line)
            /\ UNCHANGED <<session, procs, lock, pc, op, cmd, current_state,
                           binary_to_debug, elapsed, writes, replies, spawned,
                           killed, result, prev, launched>>

LoadNext ==
    \/ \E path \in Paths : debug_run(path)
    \/ debug_run_resolve
    \/ start_debugger_session
    \/ send_debugger_command
    \/ \E line \in LoadLines : LoadReadLine(line)
    \/ ReadEOF
    \/ ReadError
    \/ Tick
    \/ TimeoutBreak
    \/ ProcessExits

LoadSpec == Init /\ [][LoadNext]_vars

----------------------------------------------------------------------------
(* The request loop at the grain of run: a line is read, handled, and its
   response printed before the next line is read. *)

\* the request lines told apart by what run and handle_request do with them
Requests == {"blank", "invalid json", "unknown method", "initialize",
             "unknown tool", "debug_state", "debug_break", "debug_step"}

\* the lines answered without any operation on the session
Immediate == {"invalid json", "unknown method", "initialize", "unknown tool"}

\* how many lines the client sends in one behaviour
MaxRequests == 2

Inputs == UNION {[1..n -> Requests] : n \in 0..MaxRequests}

ParseError     == "Parse error"
MethodNotFound == "Method not found"
UnknownTool    == "Unknown tool"

\* between two requests: no session, or a live one stopped at a breakpoint
LoopInit ==
    /\ \/ session = NoSession /\ procs = {} /\ launched = FALSE
       \/ /\ session = DebugSession(1, "Stopped", "./target/debug/app", "main.rs:10")
          /\ procs = {1}
          /\ launched = TRUE
    /\ lock = "free"
    /\ pc = "idle"
    /\ op = [name |-> "", arg |-> ""]
    /\ cmd = NoCmd
    /\ current_state = "NotLoaded"
    /\ binary_to_debug = ""
    /\ response = <<>>
    /\ elapsed = 0
    /\ writes = <<>>
    /\ replies = <<>>
    /\ spawned = 0
    /\ killed = 0
    /\ result = NoResult
    /\ prev = "none"
    /\ stream = <<>>
    /\ taken = 0
    /\ torn = "none"
    /\ delivered = <<>>
    /\ stdin \in Inputs
    /\ nread = 0
    /\ handling = FALSE
    /\ stdout = <<>>

\* mutant: a blank line is answered with an error response
LoopBlank_answer ==
    /\ pc = "idle"
    /\ ~handling
    /\ nread < Len(stdin)
    /\ stdin[nread + 1] = "blank"
    /\ nread' = nread + 1
    /\ stdout' = Append(stdout, [line |-> nread + 1, kind |-> "error"])
    /\ UNCHANGED <<session, procs, lock, pc, op, cmd, current_state,
                   binary_to_debug, response, elapsed, writes, replies, spawned,
                   killed, result, prev, launched, streamvars, stdin, handling>>

\* lines.next_line() gives a line that trims to nothing: continue
LoopBlank ==
    /\ pc = "idle"
    /\ ~handling
    /\ nread < Len(stdin)
    /\ stdin[nread + 1] = "blank"
    /\ nread' = nread + 1
    /\ UNCHANGED <<session, procs, lock, pc, op, cmd, current_state,
                   binary_to_debug, response, elapsed, writes, replies, spawned,
                   killed, result, prev, launched, streamvars, stdin, handling,
                   stdout>>

\* lines.next_line() gives a request line; no response for it exists yet
LoopRead ==
    /\ pc = "idle"
    /\ ~handling
    /\ nread < Len(stdin)
    /\ stdin[nread + 1] # "blank"
    /\ nread' = nread + 1
    /\ handling' = TRUE
    /\ result' = NoResult
    /\ UNCHANGED <<session, procs, lock, pc, op, cmd, current_state,
                   binary_to_debug, response, elapsed, writes, replies, spawned,
                   killed, prev, launched, streamvars, stdin, stdout>>

\* the line does not parse, names no method or no tool, or is initialize:
\* the response is built without touching the session
LoopImmediate ==
    /\ pc = "idle"
    /\ handling
    /\ result.kind = "none"
    /\ stdin[nread] \in Immediate
    /\ result' = CASE stdin[nread] = "invalid json"   -> ErrResult(ParseError)
                   [] stdin[nread] = "unknown method" -> ErrResult(MethodNotFound)
                   [] stdin[nread] = "unknown tool"   -> ErrResult(UnknownTool)
                   [] stdin[nread] = "initialize"     ->
                          OkResult(TRUE, "", "", <<>>, "", "", "")
    /\ UNCHANGED <<session, procs, lock, pc, op, cmd, current_state,
                   binary_to_debug, response, elapsed, writes, replies, spawned,
                   killed, prev, launched, streamvars, loopvars>>

\* tools/call: handle_call_tool dispatches the line's tool
LoopCall ==
    /\ handling
    /\ result.kind = "none"
    /\ pc = "idle"
    /\ \/ stdin[nread] = "debug_state" /\ get_debug_state
       \/ stdin[nread] = "debug_step" /\ debug_step
       \/ stdin[nread] = "debug_break" /\ \E location \in BreakLocations : debug_break(location)

\* println!("{}", serde_json::to_string(&response)?)
LoopPrint ==
    /\ pc = "idle"
    /\ handling
    /\ result.kind # "none"
    /\ stdout' = Append(stdout, [line |-> nread,
                                 kind |-> IF result.kind = "error" THEN "error"
                                          ELSE "result"])
    /\ handling' = FALSE
    /\ UNCHANGED <<session, procs, lock, pc, op, cmd, current_state,
                   binary_to_debug, response, elapsed, writes, replies, spawned,
                   killed, result, prev, launched, streamvars, stdin, nread>>

\* next_line() gives None: run returns and main drops the server
LoopEnd ==
    /\ ~handling
    /\ nread = Len(stdin)
    /\ Shutdown

LoopNext ==
    \/ LoopBlank
    \/ LoopRead
    \/ LoopImmediate
    \/ LoopCall
    \/ send_debugger_command
    \/ \E line \in {PromptLine, PlainLine}, d \in {0} : ReadLine(line, d)
    \/ Tick
    \/ TimeoutBreak
    \/ LoopPrint
    \/ LoopEnd

LoopSpec == LoopInit /\ [][LoopNext]_vars

----------------------------------------------------------------------------
(* The debugger's output as one stream.  The session's BufReader lives as
   long as the session, so what the debugger printed and no command has read
   yet is still there for the next command.  A line can reach the pipe in
   two parts; read_line then holds the first part inside its future while it
   waits for the newline, and tokio documents what a dropped read_line future
   had taken as lost. *)

\* a frame line of an inlined function: " at " twice, no "stop reason"
InlinedLine == <<"frame", "at", "lib.rs:7", "at", "main.rs:10">>

\* a line of the debugged program's own output: " at " and blanks after it
TrailingAtLine == <<"waiting", "at", "">>

\* the lines of the streams considered
StreamLines == {PromptLine, LaunchedLine, StoppedLine, ExitedLine, FrameLine,
                InlinedLine, TrailingAtLine, CrashLine}

\* how many lines the debugger prints in one behaviour
MaxStream == 2

Streams == UNION {[1..n -> StreamLines] : n \in 0..MaxStream}

\* between two requests, a live session whose program was launched
StreamInit ==
    /\ \E st \in {"Running", "Stopped"}, loc \in {NoLocation, "lib.rs:7"} :
           session = DebugSession(1, st, "./target/debug/app", loc)
    /\ procs = {1}
    /\ lock = "free"
    /\ pc = "idle"
    /\ op = [name |-> "", arg |-> ""]
    /\ cmd = NoCmd
    /\ current_state = "NotLoaded"
    /\ binary_to_debug = ""
    /\ response = <<>>
    /\ elapsed = 0
    /\ writes = <<>>
    /\ replies = <<>>
    /\ spawned = 0
    /\ killed = 0
    /\ result = NoResult
    /\ prev = "none"
    /\ launched = TRUE
    /\ stream \in Streams
    /\ taken = 0
    /\ torn = "none"
    /\ delivered = <<>>
    /\ stdin = <<>>
    /\ nread = 0
    /\ handling = FALSE
    /\ stdout = <<>>

\* the line read_line returns next: the stream's next line, or what is left
\* of it when a dropped read_line had taken its first part
NextLine ==
    IF torn = "lost" THEN Tail(stream[taken + 1]) ELSE stream[taken + 1]

\* select!: read_line resolves with a line
StreamReadLine ==
    /\ pc = "read"
    /\ ~TimedOut(elapsed)
    /\ taken < Len(stream)
    /\ taken' = taken + 1
    /\ torn' = "none"
    /\ delivered' = Append(delivered, NextLine)
    /\ UNCHANGED <<stream, loopvars>>
    /\ IF is_response_complete(NextLine, cmd)
       THEN Complete(Append(response, NextLine))
       ELSE /\ response' = Append(response, NextLine)
            /\ UNCHANGED <<session, procs, lock, pc, op, cmd, current_state,
                           binary_to_debug, elapsed, writes, replies, spawned,
                           killed, result, prev, launched>>

\* select!: read_line is polled, takes the first part of a line out of the
\* reader and stays pending for the newline
StreamReadPart ==
    /\ pc = "read"
    /\ ~TimedOut(elapsed)
    /\ taken < Len(stream)
    /\ torn = "none"
    /\ Len(stream[taken + 1]) > 1
    /\ torn' = "consumed"
    /\ UNCHANGED <<session, procs, lock, pc, op, cmd, current_state,
                   binary_to_debug, response, elapsed, writes, replies, spawned,
                   killed, result, prev, launched, stream, taken, delivered,
                   loopvars>>

\* select!: the 100 ms sleep resolves first and the read_line future is dropped
StreamTick ==
    /\ pc = "read"
    /\ ~TimedOut(elapsed)
    /\ Alive(session)
    /\ elapsed' = ClockAfter(elapsed, 1)
    /\ torn' = IF torn = "consumed" THEN "lost" ELSE torn
    /\ UNCHANGED <<session, procs, lock, pc, op, cmd, current_state,
                   binary_to_debug, response, writes, replies, spawned, killed,
                   result, prev, launched, stream, taken, delivered, loopvars>>

\* the deadline is checked at the top of the loop, no read_line in flight
StreamTimeoutBreak ==
    /\ torn # "consumed"
    /\ TimeoutBreak

StreamNext ==
    \/ \E location \in BreakLocations : debug_break(location)
    \/ debug_continue
    \/ debug_step
    \/ \E expr \in Exprs : debug_eval(expr)
    \/ debug_backtrace
    \/ debug_list_breakpoints
    \/ send_debugger_command
    \/ StreamReadLine
    \/ StreamReadPart
    \/ StreamTick
    \/ StreamTimeoutBreak

StreamSpec == StreamInit /\ [][StreamNext]_vars

----------------------------------------------------------------------------
(* Vocabulary of the properties *)

GuardedOps == {"debug_continue", "debug_step", "debug_step_into",
               "debug_step_out", "debug_eval", "debug_backtrace"}
StepOps    == {"debug_step", "debug_step_into", "debug_step_out"}

\* the states in which an operation is let through
Permitted(name) ==
    IF name = "debug_continue" THEN {"Loaded", "Stopped"} ELSE {"Stopped"}

\* the DebugState a state string of a result names
StateNamed(str) ==
    CASE str \in {"notloaded", "not_loaded"} -> "NotLoaded"
      [] str = "loaded"    -> "Loaded"
      [] str = "running"   -> "Running"
      [] str = "stopped"   -> "Stopped"
      [] str = "crashed"   -> "Crashed"
      [] str = "completed" -> "Completed"
      [] OTHER -> "none"

\* this step is the request loop taking up a call of the operation
IsCall(name) ==
    /\ pc = "idle"
    /\ pc' \in {"idle", "send"}
    /\ op'.name = name
    /\ procs' = procs

StepCommand(name) ==
    CASE name = "debug_step"      -> StepOverCmd
      [] name = "debug_step_into" -> StepInCmd
      [] name = "debug_step_out"  -> StepOutCmd

\* the call in flight is over and its response is out
Returned == pc = "idle" /\ result.kind # "none"

\* the operations that run a command against the session's debugger
CommandOps == GuardedOps \cup {"debug_break", "debug_list_breakpoints"}

\* this step is the read loop ending on end-of-stream: the debugger is dead
\* and the reply is the lines read so far, nothing appended
IsEOF ==
    /\ pc = "read"
    /\ ~Alive(session)
    /\ replies' = Append(replies, response)

\* this step is the command write failing on the dead debugger's pipe
IsWriteError ==
    /\ pc = "send"
    /\ session.some
    /\ ~Alive(session)
    /\ pc' = "idle"

----------------------------------------------------------------------------
(* C1 *)

\* C1: a call of continue, step, step_into, step_out, eval or backtrace made
\* while the session state (NotLoaded when there is no session) is outside
\* the operation's permitted set returns at once with success:false and the
\* actual state, writes no command, and leaves the session as it was.
C1_RejectedOutsidePrecondition ==
    [][\A name \in GuardedOps :
          (IsCall(name) /\ StateOrNotLoaded(session) \notin Permitted(name))
          => /\ pc' = "idle"
             /\ result'.kind = "result"
             /\ result'.success = FALSE
             /\ StateNamed(result'.state) = StateOrNotLoaded(session)
             /\ writes' = <<>>
             /\ session' = session]_vars

\* a step was rejected while the program runs, the session keeping its state
C1_Witness ==
    /\ Returned
    /\ op.name = "debug_step"
    /\ result.success = FALSE
    /\ result.state = "running"
    /\ session.some /\ session.state = "Running"
    /\ writes = <<>>

----------------------------------------------------------------------------
(* C2 *)

\* C2: at most one debugger subprocess is alive, and it is the registry's; a
\* subprocess is spawned only when the registry is empty and nothing is
\* alive (the old one was killed and removed first); a session leaves the
\* registry only with its subprocess dead.
C2_AtMostOneDebugger ==
    /\ [](Cardinality(procs) <= 1 /\ (procs # {} => Alive(session)))
    /\ [][spawned' > spawned => (procs = {} /\ ~session.some)]_vars
    /\ [][(session.some /\ (~session'.some \/ session'.proc # session.proc))
            => session.proc \notin procs']_vars

\* a load that killed a live session's debugger has spawned the next one
C2_Witness ==
    /\ op.name = "debug_run"
    /\ killed = 1
    /\ spawned = 1
    /\ Alive(session)
    /\ Cardinality(procs) = 1

----------------------------------------------------------------------------
(* C3 *)

\* C3: an operation that has checked its precondition holds the session lock
\* until its last command's reply has been framed and the state updated: the
\* lock is held whenever such an operation is between those steps.
C3_LockHeldFromCheckToUpdate ==
    (op.name \in GuardedOps /\ pc \in {"send", "read"}) => lock = "held"

----------------------------------------------------------------------------
(* C4 *)

\* C4: a load holds the session lock from the removal of the old session
\* until the new session is Loaded: while a load is in flight the lock is
\* held, so an empty registry or a NotLoaded session is never left unlocked.
C4_LoadHoldsLock ==
    (op.name = "debug_run" /\ pc \in {"run_resolve", "run_spawn", "send", "read"})
        => lock = "held"

----------------------------------------------------------------------------
(* C5 *)

\* C5: the read loop always ends: it never waits with the clock more than
\* one tick past the deadline, the next step of a loop that is past the
\* deadline leaves it with the lines read so far plus the timeout
\* annotation, and every read loop is eventually left.
C5_FramerTerminates ==
    /\ [](pc = "read" => elapsed <= TimeoutTicks + 1)
    /\ [][(pc = "read" /\ elapsed > TimeoutTicks /\ procs' = procs)
            => (pc' # "read" /\ replies' = Append(replies, Append(response, TimeoutLine)))]_vars
    /\ ((pc = "read") ~> (pc # "read"))

\* a reply ended by the deadline, with partial output before the annotation
C5_Witness ==
    /\ replies # <<>>
    /\ Len(replies[1]) > 1
    /\ replies[1][Len(replies[1])] = TimeoutLine
    /\ ~Contains(replies[1], "(lldb)")

----------------------------------------------------------------------------
(* C6 *)

\* C6: a finished eval that was let through issued "expression <expr>" first,
\* and issued "frame variable <expr>" second exactly when the first reply
\* contains "error:" or "undeclared identifier"; otherwise it issued one
\* command only.
C6_EvalFallbackIff ==
    (Returned /\ op.name = "debug_eval" /\ current_state = "Stopped")
    => /\ Len(writes) \in {1, 2}
       /\ writes[1] = <<"expression", op.arg>>
       /\ Len(writes) = 2 =>
             writes[2] = <<"frame", "variable", op.arg>>
       /\ Len(writes) = 2 <=>
             /\ replies # <<>>
             /\ \/ \E i \in 1..Len(replies[1]) : LineContains(replies[1][i], "error:")
                \/ \E i \in 1..Len(replies[1]) :
                      LineContains(replies[1][i], "undeclared identifier")

\* an eval whose first reply had "undeclared identifier" and fell back
C6_Witness ==
    /\ Returned
    /\ op.name = "debug_eval"
    /\ Len(writes) = 2
    /\ Len(replies) = 2
    /\ Contains(replies[1], "undeclared identifier")
    /\ ~Contains(replies[1], "error:")

----------------------------------------------------------------------------
(* C7 *)

\* C7: continue issues exactly "process launch" from Loaded and exactly
\* "process continue" from Stopped; when the launch reply has a line with
\* "Process" and "launched", the session state and the result's state are
\* Running after the call.
C7_ContinueCommand ==
    op.name = "debug_continue"
    => /\ (current_state = "Loaded" /\ pc # "send") => writes = << <<"process", "launch">> >>
       /\ (current_state = "Stopped" /\ pc # "send") => writes = << <<"process", "continue">> >>
       /\ current_state \notin {"Loaded", "Stopped"} => writes = <<>>
       /\ pc = "send" => writes = <<>>
       /\ (/\ Returned
           /\ current_state = "Loaded"
           /\ replies # <<>>
           /\ \E i \in 1..Len(replies[1]) :
                 /\ LineContains(replies[1][i], "Process")
                 /\ LineContains(replies[1][i], "launched"))
          => /\ session.state = "Running"
             /\ result.kind = "result"
             /\ result.state = "running"

\* a launch from Loaded whose reply announced the launched process
C7_Witness ==
    /\ Returned
    /\ op.name = "debug_continue"
    /\ current_state = "Loaded"
    /\ writes = <<ProcessLaunchCmd>>
    /\ replies = << <<LaunchedLine>> >>
    /\ session.state = "Running"
    /\ result.state = "running"

----------------------------------------------------------------------------
(* C8 *)

----------------------------------------------------------------------------
(* C9 *)

\* C9 as stated: a finished load of a path that does not exist returned a
\* result with success:false and spawned no debugger.
C9_MissingPathResult ==
    (Returned /\ op.name = "debug_run" /\ op.arg = "./nonexistent")
    => /\ result.kind = "result"
       /\ result.success = FALSE
       /\ spawned = 0

\* C9 amended: a load of a path that does not exist spawns no debugger at
\* any point and ends with the error response "Path does not exist" (not a
\* result with a success field), the registry empty and no debugger alive.
C9_MissingPathError ==
    (op.name = "debug_run" /\ op.arg = "./nonexistent" /\ pc # "stopped")
    => /\ spawned = 0
       /\ procs = {}
       /\ ~session.some
       /\ pc \in {"run_resolve", "idle"}
       /\ pc = "idle" => result = ErrResult(PathMissingError)

\* a load of the missing path has ended, after killing the previous session
C9_Witness ==
    /\ Returned
    /\ op.name = "debug_run"
    /\ op.arg = "./nonexistent"
    /\ result.kind = "error"
    /\ killed = 1

----------------------------------------------------------------------------
(* C10 *)

\* C10: a load of a missing path ends with an error response and the request
\* loop back at reading requests; a load of an existing path that comes
\* right after it then returns success with state "loaded" and the session
\* Loaded, unless the build, the spawn or the pipe fails it.
C10_FailedLoadKeepsServing ==
    /\ [][(pc = "run_resolve" /\ ~Exists(op.arg))
            => (pc' = "idle" /\ result'.kind = "error")]_vars
    /\ []((Returned /\ prev = "run_missing" /\ op.name = "debug_run" /\ Exists(op.arg))
            => \/ /\ result.kind = "result"
                  /\ result.success = TRUE
                  /\ result.state = "loaded"
                  /\ session.some /\ session.state = "Loaded"
               \/ /\ result.kind = "error"
                  /\ result.error \in {BuildFailedError, SpawnFailedError, WriteFailedError})

\* the load after a failed load succeeded
C10_Witness ==
    /\ Returned
    /\ prev = "run_missing"
    /\ op.name = "debug_run"
    /\ op.arg = "./bin"
    /\ result.success = TRUE
    /\ result.state = "loaded"
    /\ session.state = "Loaded"
    /\ Alive(session)

----------------------------------------------------------------------------
(* C11 *)

\* C11 as stated: a finished break that was called with no session in the
\* registry wrote its "breakpoint set --name <location>" command and
\* returned a result with success:false.
C11_BreakWithoutSessionWrites ==
    (Returned /\ op.name = "debug_break" /\ ~session.some)
    => /\ writes = << <<"breakpoint", "set", "--name", op.arg>> >>
       /\ result.kind = "result"
       /\ result.success = FALSE

\* C11 amended: break checks no state, but with no session in the registry
\* there is no debugger to write to: nothing is written or spawned, the call
\* ends with the error response "No active debugger session" (not a result
\* with a success field), and the registry stays empty.
C11_BreakWithoutSessionError ==
    (op.name = "debug_break" /\ ~session.some /\ pc # "stopped")
    => /\ writes = <<>>
       /\ replies = <<>>
       /\ spawned = 0
       /\ procs = {}
       /\ pc \in {"send", "idle"}
       /\ pc = "send" => cmd = <<"breakpoint", "set", "--name", op.arg>>
       /\ pc = "idle" => result = ErrResult(NoSessionError)

\* a break before any load has been answered
C11_Witness ==
    /\ Returned
    /\ op.name = "debug_break"
    /\ ~session.some
    /\ result.kind = "error"
    /\ result.error = NoSessionError
    /\ writes = <<>>

----------------------------------------------------------------------------
(* C12 *)

\* C12: an operation (continue, the step family, eval, backtrace, break,
\* list_breakpoints) during which the debugger is found dead returns a
\* result with success:false; stated for the death found by end-of-stream
\* while the reply is read, the call returning on that step.
C12_DeadDebuggerReported ==
    [][(IsEOF /\ op.name \in CommandOps /\ pc' = "idle")
         => (result'.kind = "result" /\ result'.success = FALSE)]_vars

----------------------------------------------------------------------------
(* C13 *)

\* C13: when the debugger is found dead during an operation (failed write or
\* end-of-stream), the session stays in the registry with the same
\* subprocess handle and binary_path, nothing is spawned, and its state and
\* location are the last ones observed (unchanged on a failed write, moved
\* only by the lines read before the end of the stream); get_state on the
\* dead session reports these fields, the guarded operations are let
\* through or rejected by that state, and only a load or the shutdown takes
\* the session out.
C13_DeadSessionRetained ==
    /\ [][(op.name \in CommandOps /\ (IsEOF \/ IsWriteError))
            => /\ session'.some
               /\ session'.proc = session.proc
               /\ session'.binary_path = session.binary_path
               /\ spawned' = spawned
               /\ procs' = procs
               /\ LET read == IF pc = "read" THEN response ELSE <<>>
                  IN  /\ session'.state = TrackedState(read, session.state)
                      /\ session'.current_location =
                            TrackedLocation(read, session.current_location)]_vars
    /\ [][(IsCall("debug_state") /\ session.some /\ ~Alive(session))
            => /\ result'.state = DebugLower(session.state)
               /\ result'.location = session.current_location
               /\ result'.binary_path = session.binary_path
               /\ session' = session]_vars
    /\ [][\A name \in GuardedOps :
            (IsCall(name) /\ session.some /\ ~Alive(session))
            => /\ pc' = "send" <=> session.state \in Permitted(name)
               /\ session' = session]_vars
    /\ [][(session.some /\ ~Alive(session) /\ pc # "read" /\ session' # session)
            => /\ ~session'.some
               /\ op'.name = "debug_run" \/ pc' = "stopped"]_vars

\* a step found the debugger dead at the write; the session is still there,
\* stopped at its location
C13_Witness ==
    /\ Returned
    /\ op.name = "debug_step"
    /\ result.kind = "error"
    /\ result.error = WriteFailedError
    /\ session.some
    /\ ~Alive(session)
    /\ session.state = "Stopped"
    /\ session.current_location # NoLocation

----------------------------------------------------------------------------
(* C14 *)

\* the last command the call wrote got a reply, ended by the deadline
LastReplyTimedOut ==
    /\ replies # <<>>
    /\ Len(replies) = Len(writes)
    /\ replies[Len(replies)] # <<>>
    /\ replies[Len(replies)][Len(replies[Len(replies)])] = TimeoutLine

----------------------------------------------------------------------------
(* C15 *)

\* the operations whose answer carries the session's location
LocationOps == {"debug_state", "debug_continue"} \cup StepOps

\* C15 as stated: the session's location is present only while its state is
\* Stopped: in every other state it is absent from the session and from
\* what get_state and continue/step report.
C15_LocationOnlyWhenStopped ==
    /\ (session.some /\ session.state # "Stopped")
          => session.current_location = NoLocation
    /\ (Returned /\ op.name \in LocationOps /\ StateNamed(result.state) # "Stopped")
          => result.location = NoLocation

\* C15 amended: a session is created without a location; the location
\* changes only when a reply with "stop reason" and an " at <location>" has
\* been framed, to the location extracted from that reply, and is never
\* cleared afterwards, whatever the state is or becomes; get_state and
\* successful continue/step results report the session's location as it
\* is, also in Running, Crashed and Completed.
C15_LocationIsLastKnown ==
    /\ [][(~session.some /\ session'.some)
            => session'.current_location = NoLocation]_vars
    /\ [][(session.some /\ session'.some
            /\ session'.current_location # session.current_location)
            => /\ pc = "read"
               /\ Len(replies') = Len(replies) + 1
               /\ Contains(replies'[Len(replies')], "stop reason")
               /\ session'.current_location # NoLocation
               /\ session'.current_location =
                     extract_location_from_response(replies'[Len(replies')])]_vars
    /\ []((/\ Returned
           /\ op.name \in LocationOps
           /\ result.kind = "snapshot" \/ (result.kind = "result" /\ result.success))
            => result.location = (IF session.some THEN session.current_location
                                                  ELSE NoLocation))

\* a continue from a stop ended with the program exited, and the result
\* still carries the location of the stop
C15_Witness ==
    /\ Returned
    /\ op.name = "debug_continue"
    /\ current_state = "Stopped"
    /\ result.success = TRUE
    /\ result.state = "completed"
    /\ session.state = "Completed"
    /\ result.location # NoLocation

----------------------------------------------------------------------------
(* C16 *)

\* the path debug_run resolves for a requested path
ResolvedPath(path) == IF path = "./proj" THEN "./proj/target/debug/app" ELSE path

\* C16: a session is created with the path its load resolved as
\* binary_path, no step changes the binary_path of a session that stays in
\* the registry, while the load is in flight and when it has returned
\* success the session's path is the resolved path of the request, and
\* every get_state on a session reports the session's binary_path.
C16_BinaryPathFixed ==
    /\ [][(~session.some /\ session'.some)
            => /\ op.name = "debug_run"
               /\ session'.binary_path = ResolvedPath(op.arg)]_vars
    /\ [][(session.some /\ session'.some)
            => session'.binary_path = session.binary_path]_vars
    /\ []((op.name = "debug_run" /\ session.some)
            => session.binary_path = ResolvedPath(op.arg))
    /\ [][(IsCall("debug_state") /\ session.some)
            => result'.binary_path = session.binary_path]_vars

\* get_state after a build-and-load and a launch whose reply carried a stop
\* location: the path is still the built binary
C16_Witness ==
    /\ Returned
    /\ op.name = "debug_state"
    /\ result.binary_path = "./proj/target/debug/app"
    /\ result.location = "main.rs:10"
    /\ session.state \in {"Stopped", "Running", "Completed", "Crashed"}

----------------------------------------------------------------------------
(* C17 *)

----------------------------------------------------------------------------
(* C18 *)

\* C18: break called on a session in any state goes on to write
\* "breakpoint set --name <location>" and leaves the session as it is; once
\* it has returned it has written that one command, and when a reply was
\* framed the result has success:true exactly when no line of the reply
\* contains "no locations" or "error:", the reply as output and the
\* location asked for.
C18_BreakResult ==
    /\ [][(IsCall("debug_break") /\ session.some)
            => /\ pc' = "send"
               /\ cmd' = <<"breakpoint", "set", "--name", op'.arg>>
               /\ session' = session]_vars
    /\ []((Returned /\ op.name = "debug_break" /\ session.some)
            => /\ writes = << <<"breakpoint", "set", "--name", op.arg>> >>
               /\ replies # <<>> =>
                     /\ Len(replies) = 1
                     /\ result.kind = "result"
                     /\ result.success <=>
                           \A i \in 1..Len(replies[1]) :
                              /\ ~LineContains(replies[1][i], "no locations")
                              /\ ~LineContains(replies[1][i], "error:")
                     /\ result.output = replies[1]
                     /\ result.location = op.arg)

\* a break set while the program runs found no location: success:false
\* with the debugger's text as output
C18_Witness ==
    /\ Returned
    /\ op.name = "debug_break"
    /\ session.state = "Running"
    /\ result.kind = "result"
    /\ result.success = FALSE
    /\ result.output = <<NoLocationsLine>>

----------------------------------------------------------------------------
(* C19 *)

\* C19: get_state returns at once without writing a command, spawning or
\* killing, and leaves the registry and the session as they were; it reports
\* the session's state, location and binary_path, and NotLoaded with no
\* location and no path when the registry is empty; a get_state that comes
\* right after a get_state returns the same snapshot.
C19_GetStateReadOnly ==
    /\ [][IsCall("debug_state")
            => /\ pc' = "idle"
               /\ writes' = <<>>
               /\ spawned' = 0
               /\ session' = session
               /\ procs' = procs
               /\ lock' = lock
               /\ result'.kind = "snapshot"
               /\ IF session.some
                  THEN /\ StateNamed(result'.state) = session.state
                       /\ result'.location = session.current_location
                       /\ result'.binary_path = session.binary_path
                  ELSE /\ StateNamed(result'.state) = "NotLoaded"
                       /\ result'.location = NoLocation
                       /\ result'.binary_path = ""]_vars
    /\ [][(IsCall("debug_state") /\ Returned /\ op.name = "debug_state")
            => result' = result]_vars

\* a get_state on a stopped session whose debugger is still running
C19_Witness ==
    /\ Returned
    /\ op.name = "debug_state"
    /\ result.kind = "snapshot"
    /\ Alive(session)
    /\ writes = <<>>
    /\ result.state = "stopped"
    /\ result.location # NoLocation
    /\ result.binary_path = "./bin"

----------------------------------------------------------------------------
(* C20 *)

\* C20: a session is in the registry only if its load has returned
\* success: whenever the server is ready to take a request the registry
\* holds no session in state NotLoaded, and a load that has ended with an
\* error has left no session behind.
C20_SessionOnlyAfterLoad ==
    /\ (pc = "idle" /\ session.some) => session.state # "NotLoaded"
    /\ (Returned /\ op.name = "debug_run" /\ result.kind = "error") => ~session.some

----------------------------------------------------------------------------
(* C21 *)

\* the load in flight or just ended failed before a session was stored
LoadFailedEarly ==
    /\ Returned
    /\ op.name = "debug_run"
    /\ result.kind = "error"
    /\ result.error \in {PathMissingError, BuildFailedError, SpawnFailedError}

\* C21: a load that has failed on a missing path, a failed build or a
\* failed spawn has spawned and written nothing and has left the registry
\* empty and no debugger alive, whatever session there was before; a
\* get_state called next reports NotLoaded with no binary_path and no
\* location, and a continue, step, eval or backtrace called next is
\* rejected without a write.
C21_EarlyFailureTearsDown ==
    /\ [](LoadFailedEarly
            => /\ ~session.some
               /\ procs = {}
               /\ spawned = 0
               /\ writes = <<>>)
    /\ [][(LoadFailedEarly /\ IsCall("debug_state"))
            => /\ StateNamed(result'.state) = "NotLoaded"
               /\ result'.binary_path = ""
               /\ result'.location = NoLocation]_vars
    /\ [][\A name \in GuardedOps :
            (LoadFailedEarly /\ IsCall(name))
            => /\ pc' = "idle"
               /\ result'.kind = "result"
               /\ result'.success = FALSE
               /\ writes' = <<>>]_vars

\* the debugger could not be spawned for a load that had already killed
\* the session before it
C21_Witness ==
    /\ LoadFailedEarly
    /\ result.error = SpawnFailedError
    /\ killed = 1
    /\ ~session.some
    /\ procs = {}

----------------------------------------------------------------------------
(* C22 *)

\* C22: the lock is held only inside send_debugger_command's read loop, so
\* whenever an operation is about to lock (at its state check, at the store
\* of a new session, at the command write) the lock is free and no
\* operation waits on itself; an operation that waits to write its command
\* or holds the lock in the read loop eventually is in neither place, where
\* the lock is free again.
C22_LockReleased ==
    /\ [](lock = "held" => pc = "read")
    /\ [](pc \in {"idle", "run_resolve", "run_spawn", "send", "stopped"}
              => lock = "free")
    /\ ((pc \in {"send", "read"}) ~> (pc \notin {"send", "read"}))

\* an eval has locked and released twice, for its command and its fallback
C22_Witness ==
    /\ Returned
    /\ op.name = "debug_eval"
    /\ Len(writes) = 2
    /\ Len(replies) = 2
    /\ lock = "free"

----------------------------------------------------------------------------
(* C23 *)

\* C23: an eval that passed its precondition and returned a result got a
\* reply to every command it wrote; the result's success says that no line
\* of the last reply contains "error:", its output is that last reply, and
\* its method is "expression" when one command was written and
\* "frame_variable" when the fallback was written too.
C23_EvalResult ==
    (/\ Returned
     /\ op.name = "debug_eval"
     /\ current_state = "Stopped"
     /\ result.kind = "result")
    => /\ Len(replies) = Len(writes)
       /\ Len(writes) \in {1, 2}
       /\ result.success <=>
             \A i \in 1..Len(replies[Len(replies)]) :
                ~LineContains(replies[Len(replies)][i], "error:")
       /\ result.output = replies[Len(replies)]
       /\ result.method = (IF Len(writes) = 1 THEN "expression" ELSE "frame_variable")

\* "undeclared identifier" on the first attempt, a value from the fallback
C23_Witness ==
    /\ Returned
    /\ op.name = "debug_eval"
    /\ replies = << <<UndeclLine>>, <<ValueLine>> >>
    /\ result.success = TRUE
    /\ result.method = "frame_variable"
    /\ result.output = <<ValueLine>>

----------------------------------------------------------------------------
(* The State Tracker's table *)

\* this step ends a command's reply
Framed == Len(replies') = Len(replies) + 1

\* the reply this step ends
FramedReply == replies'[Len(replies')]

\* the rows of the table, in order
Row(i, r) ==
    CASE i = 1 -> Contains(r, "Process") /\ Contains(r, "launched")
      [] i = 2 -> Contains(r, "Process") /\ Contains(r, "stopped")
      [] i = 3 -> Contains(r, "Process") /\ Contains(r, "exited")
      [] i = 4 -> \E w \in {"crashed", "SIGSEGV", "SIGABRT"} : Contains(r, w)

RowState == <<"Running", "Stopped", "Completed", "Crashed">>

\* the first row that matches, 0 when none does
FirstRow(r) ==
    IF \E i \in 1..4 : Row(i, r)
    THEN CHOOSE i \in 1..4 : Row(i, r) /\ \A j \in 1..(i - 1) : ~Row(j, r)
    ELSE 0

\* C24: every step that ends a command's reply, whatever the operation, sets
\* the session's state to the state of the first row of the table the reply
\* matches, and leaves it as it was when the reply matches no row; a reply
\* with "Process", "launched" and "stopped" gives Running.
C24_StateFromReply ==
    [][Framed =>
          /\ session'.state = IF FirstRow(FramedReply) = 0
                              THEN session.state
                              ELSE RowState[FirstRow(FramedReply)]
          /\ (/\ Contains(FramedReply, "Process")
              /\ Contains(FramedReply, "launched")
              /\ Contains(FramedReply, "stopped")) => session'.state = "Running"]_vars

\* a step from Stopped got a reply with both "launched" and "stopped"
C24_Witness ==
    /\ pc = "idle"
    /\ op.name = "debug_step"
    /\ Len(replies) = 1
    /\ Contains(replies[1], "launched")
    /\ Contains(replies[1], "stopped")
    /\ session.state = "Running"

\* the locations a session can hold
Locations == {NoLocation, "lib.rs:7", "main.rs:10"}

\* what the tracker makes of reply r had the session held state st and
\* location loc before
TrackerFrom(r, st, loc) ==
    update_session_state(r, [session EXCEPT !.state = st, !.current_location = loc])

\* line.contains(" at ")
HasAt(line) == \E i \in 2..(Len(line) - 1) : line[i] = "at"

\* the word after the first " at " of a line, "" when only blanks follow
TokenAfterAt(line) ==
    line[1 + CHOOSE i \in 2..(Len(line) - 1) :
                 line[i] = "at" /\ \A j \in 2..(i - 1) : line[j] # "at"]

\* the line has " at " and a token after the first one
HasLocation(line) == HasAt(line) /\ TokenAfterAt(line) # ""

\* the reply gives a location: "stop reason" somewhere, and on some line
\* " at " with a token after it
Locates(r) == Contains(r, "stop reason") /\ \E i \in 1..Len(r) : HasLocation(r[i])

\* C25 as claimed: the state and location after a reply are the same
\* whatever state and location the session held before
C25_HistoryIndependent ==
    [][Framed =>
          \A st \in DebugState, loc \in Locations :
              /\ TrackerFrom(FramedReply, st, loc).state = session'.state
              /\ TrackerFrom(FramedReply, st, loc).current_location
                     = session'.current_location]_vars

\* C25: the session after a reply is a function of the reply and of the
\* session before, whatever the operation; the state does not depend on the
\* prior state when a row of the table matches and is the prior state
\* otherwise; the location does not depend on the prior location when the
\* reply gives one and is the prior location otherwise.
C25_TrackerDeterministic ==
    [][Framed =>
          LET r == FramedReply
          IN  /\ session' = update_session_state(r, session)
              /\ \A st \in DebugState :
                     TrackedState(r, st) = IF FirstRow(r) # 0 THEN session'.state ELSE st
              /\ \A loc \in Locations :
                     TrackedLocation(r, loc) = IF Locates(r)
                                               THEN session'.current_location
                                               ELSE loc]_vars

\* a reply that matches no row and gives no location left a stopped
\* session as it was
C25_Witness ==
    /\ pc = "idle"
    /\ op.name = "debug_step"
    /\ replies = << <<PromptLine>> >>
    /\ session.state = "Stopped"
    /\ session.current_location = "lib.rs:7"

----------------------------------------------------------------------------
(* The framer and the debugger's output stream *)

\* a reply without the timeout annotation
Emitted(r) == SelectSeq(r, LAMBDA l : l # TimeoutLine)

\* C26: a reply consists of the lines the debugger emitted while the
\* command read, each once, whole and in order, whether or not a tick fired
\* while a line was only partly received.
C26_TickLosesNothing ==
    [][Framed =>
          LET r == Emitted(FramedReply)
          IN  /\ Len(r) <= taken'
              /\ r = SubSeq(stream, taken' - Len(r) + 1, taken')]_vars

\* this step reads line l from the debugger
LineRead(l) ==
    /\ pc = "read"
    /\ \/ response' = Append(response, l)
       \/ Framed /\ FramedReply = Append(response, l)

\* the category of a command of the vocabulary
Category(c) ==
    CASE c = <<"process", "launch">>                 -> "launch"
      [] c = <<"process", "continue">>               -> "continue"
      [] c[1] = "breakpoint" /\ c[2] = "set"         -> "breakpoint set"
      [] c[1] = "expression"                         -> "expression"
      [] c[1] = "frame" /\ c[2] = "variable"         -> "frame variable"
      [] OTHER                                       -> "none"

\* the category's predicate on a line
CategoryMatches(k, l) ==
    CASE k = "launch" ->
             LineContains(l, "Process")
                 /\ (LineContains(l, "launched") \/ LineContains(l, "stopped"))
      [] k = "continue" ->
             LineContains(l, "Process")
                 /\ (LineContains(l, "stopped") \/ LineContains(l, "exited"))
      [] k = "breakpoint set" ->
             LineContains(l, "Breakpoint") /\ LineContains(l, ":")
      [] k \in {"expression", "frame variable"} ->
             LineContains(l, "=") \/ LineContains(l, "error:")
      [] OTHER -> FALSE

----------------------------------------------------------------------------
(* Location extraction *)

\* the first line of r that satisfies P
FirstLine(r, P(_)) ==
    r[CHOOSE k \in 1..Len(r) : P(r[k]) /\ \A j \in 1..(k - 1) : ~P(r[j])]

\* C28 as claimed: with "stop reason" in the reply, the first line that
\* contains " at " decides alone: its token after the first " at " is the
\* new location and, when it has none, the location stays as it was
C28_FirstAtLineDecides ==
    [][Framed =>
          LET r == FramedReply
          IN  session'.current_location =
                  IF /\ Contains(r, "stop reason")
                     /\ \E i \in 1..Len(r) : HasAt(r[i])
                     /\ TokenAfterAt(FirstLine(r, HasAt)) # ""
                  THEN TokenAfterAt(FirstLine(r, HasAt))
                  ELSE session.current_location]_vars

\* C28: with "stop reason" in the reply, the first line that has " at " and
\* a token after its first " at " decides: that token is the new location,
\* later lines are ignored, lines with " at " and only blanks after it are
\* passed over; without "stop reason", or without such a line, the location
\* stays as it was.
C28_FirstLocationDecides ==
    [][Framed =>
          LET r == FramedReply
          IN  session'.current_location =
                  IF /\ Contains(r, "stop reason")
                     /\ \E i \in 1..Len(r) : HasLocation(r[i])
                  THEN TokenAfterAt(FirstLine(r, HasLocation))
                  ELSE session.current_location]_vars

\* of two lines with a location the first one was taken
C28_Witness ==
    /\ pc = "idle"
    /\ op.name = "debug_step"
    /\ replies = << <<FrameLine, InlinedLine, TimeoutLine>> >>
    /\ session.current_location = "main.rs:10"

----------------------------------------------------------------------------
(* Teardown *)

----------------------------------------------------------------------------
(* Framing across commands *)

\* C30: the lines the replies of a session hold, taken in order over all its
\* commands, are the first lines of the debugger's output stream, none
\* missing and none cut; so a line printed after a reply ended is the first
\* line of the next command's reply.
C30_FramingLossless ==
    /\ [](delivered = SubSeq(stream, 1, taken))
    /\ [][Framed =>
             LET r == Emitted(FramedReply)
             IN  /\ Len(r) <= Len(delivered')
                 /\ r = SubSeq(delivered', Len(delivered') - Len(r) + 1,
                               Len(delivered'))]_vars

----------------------------------------------------------------------------
(* Load and the reply to target create *)

----------------------------------------------------------------------------
(* The state value of a rejection *)

\* the call that has just returned was rejected on its precondition
Rejected ==
    /\ Returned
    /\ op.name \in GuardedOps
    /\ result.kind = "result"
    /\ ~result.success
    /\ writes = <<>>

\* C32: a get_state that follows a precondition rejection, the session
\* being in the same state, reports the state value the rejection carried,
\* whatever the rejected operation and the state.
C32_RejectionStateAsGetState ==
    [][(Rejected /\ IsCall("debug_state")) => result'.state = result.state]_vars

----------------------------------------------------------------------------
(* Loaded is left for good *)

\* the states the State Tracker assigns
TrackerStates == {"Running", "Stopped", "Completed", "Crashed"}

\* C33: outside a load, a step changes the state of the session in the
\* registry only to Running, Stopped, Completed or Crashed; a session in one
\* of these states stays in them for as long as it is in the registry; and
\* "process launch" is only ever written to a session that is Loaded, so
\* never to one that has left Loaded.
C33_LoadedIsLeftForGood ==
    /\ [][(/\ session.some
           /\ session'.some
           /\ op'.name # "debug_run"
           /\ session'.state # session.state) => session'.state \in TrackerStates]_vars
    /\ [][(session.some /\ session.state \in TrackerStates /\ session'.some)
              => session'.state \in TrackerStates]_vars
    /\ [][(Len(writes') = Len(writes) + 1 /\ writes'[Len(writes')] = ProcessLaunchCmd)
              => session.some /\ session.state = "Loaded"]_vars

\* a session that was launched and stopped got "process continue"
C33_Witness ==
    /\ Returned
    /\ op.name = "debug_continue"
    /\ writes = <<ProcessContinueCmd>>
    /\ launched
    /\ session.some
    /\ session.state \in TrackerStates

----------------------------------------------------------------------------
(* One request at a time *)

\* the lines among the first k that are not blank, in order
RECURSIVE RequestLines(_)
RequestLines(k) ==
    IF k = 0 THEN <<>>
    ELSE IF stdin[k] = "blank" THEN RequestLines(k - 1)
    ELSE Append(RequestLines(k - 1), k)

\* the lines whose handling is over
Handled == IF handling THEN nread - 1 ELSE nread

\* C34: the responses printed are one for each request line handled, in the
\* order of the lines, none for a blank line, an error or a result according
\* to the line; a line is read only when the line before it has its
\* response; and an operation is in flight on the session only as the
\* operation of the one line being handled.
C34_OneAtATime ==
    /\ [](/\ Len(stdout) = Len(RequestLines(Handled))
          /\ \A j \in 1..Len(stdout) :
                 /\ stdout[j].line = RequestLines(Handled)[j]
                 /\ stdin[stdout[j].line] \in {"invalid json", "unknown method",
                                               "unknown tool"}
                        => stdout[j].kind = "error"
                 /\ stdin[stdout[j].line] \in {"initialize", "debug_state", "debug_step"}
                        => stdout[j].kind = "result")
    /\ [](pc \in {"send", "read"} =>
              /\ handling
              /\ op.name = stdin[nread]
              /\ result.kind = "none")
    /\ [][nread' # nread =>
              /\ nread' = nread + 1
              /\ pc = "idle"
              /\ ~handling
              /\ Len(stdout) = Len(RequestLines(nread))]_vars
    /\ [][stdout' # stdout =>
              /\ Len(stdout') = Len(stdout) + 1
              /\ nread' = nread
              /\ pc = "idle"
              /\ lock = "free"]_vars

\* a blank line, then a break on a live session: one response, for line 2
C34_Witness ==
    /\ stdin = <<"blank", "debug_break">>
    /\ session.some
    /\ nread = 2
    /\ Len(replies) = 1
    /\ stdout = << [line |-> 2, kind |-> "result"] >>

====
